---- MODULE Spec2Model ----
(***************************************************************************)
(* The chat route of Backend/chatbot.js: the per-IP session memory, the    *)
(* four mongoose collections it drives, and the POST /chat handler split   *)
(* at its suspension points (every `await`).  The file holds two versions  *)
(* of the route (lines 1-334 and 336-576); `version` selects one of them   *)
(* for a whole behaviour.                                                  *)
(*                                                                         *)
(* JavaScript objects (a session context, the classifier's `data`) are     *)
(* functions from the field names that have been assigned to their values; *)
(* a field outside the domain reads as `undefined`.  `null` is Null for an *)
(* id and the empty sequence for lastDeleted.                              *)
(*                                                                         *)
(* Not modelled: the show_projects / show_buckets / show_tasks cases       *)
(* (lines 278-320), which only read the store and set ctx.lastResult, and  *)
(* names holding regular-expression metacharacters.                        *)
(***************************************************************************)
EXTENDS Integers, Sequences, FiniteSets, TLC

VARIABLES
    version,    \* which of the two routes of the file is deployed
    db,         \* the collections: model name -> set of documents
    nextId,     \* the next _id the store assigns
    memory,     \* const memory = new Map(): ip -> context object
    reqs        \* the suspended handlers: slot -> frame

vars == <<version, db, nextId, memory, reqs>>

-----------------------------------------------------------------------------
(* Bounds *)

MaxId == 3          \* _ids the store assigns within one behaviour
MaxInflight == 2    \* handler frames that may be suspended at once

Slots == 1..MaxInflight
Ids == 1..MaxId

-----------------------------------------------------------------------------
(* Values *)

Null == 0
IPs == {"ip1", "ip2"}
Models == {"Board", "Bucket", "Task", "User"}

\* Names are strings, as sequences of characters.
Names == {<<"r">>, <<"R", "n">>}

EmptyObj == [f \in {} |-> 0]

Has(o, f) == f \in DOMAIN o

SetField(o, f, v) == [g \in DOMAIN o \cup {f} |-> IF g = f THEN v ELSE o[g]]

\* the object o less the fields F
Without(o, F) == [g \in DOMAIN o \ F |-> o[g]]

\* a falsy read of an id field: undefined or null
IdOf(o, f) == IF Has(o, f) THEN o[f] ELSE Null

\* ctx.lastDeleted as a sequence: empty when undefined or null
SnapOf(o) == IF Has(o, "lastDeleted") THEN o.lastDeleted ELSE <<>>

Lower(c) == IF c = "R" THEN "r" ELSE IF c = "N" THEN "n" ELSE c

Upper(c) == IF c = "r" THEN "R" ELSE IF c = "n" THEN "N" ELSE c

LowerStr(s) == [i \in DOMAIN s |-> Lower(s[i])]

\* new RegExp(p, 'i').test(s): p occurs in s, case ignored
Test(p, s) ==
    \E i \in 0..(Len(s) - Len(p)) :
        SubSeq(LowerStr(s), i + 1, i + Len(p)) = LowerStr(p)

\* new RegExp(`^${p}$`, 'i').test(s): p is all of s, case ignored
TestExact(p, s) == LowerStr(p) = LowerStr(s)

\* name.split(' ').map(w => w[0]).join('').toUpperCase(), one-word names
Initials(name) == <<Upper(name[1])>>

\* the field a delete matches on
NameField(model) == IF model = "User" THEN "name" ELSE "title"

-----------------------------------------------------------------------------
(* The classifier *)

OptField(f, S) == {EmptyObj} \cup {[g \in {f} |-> v] : v \in S}

\* data.type as the classifier may give it; "zzz" is no kind of either route
Types == {"task", "bucket", "member", "zzz",
          IF version = 1 THEN "project" ELSE "board"}

CreateAction == IF version = 1 THEN "create_project" ELSE "create_board"

DataFor(action) ==
    CASE action \in {CreateAction, "set_active_project"} ->
            OptField("title", Names)
      [] action = "add_bucket" ->
            {a @@ b : a \in OptField("title", Names),
                      b \in OptField("project", {<<"r">>})}
      [] action = "add_task" ->
            {[title |-> <<"r">>] @@ b : b \in OptField("bucket", Names)}
                \cup {EmptyObj}
      [] action = "add_member" -> OptField("name", Names)
      [] action = "delete" ->
            {[type |-> t, name |-> n] : t \in Types, n \in Names}
                \cup OptField("type", {"task"})
      [] OTHER -> {EmptyObj}

Actions ==
    {CreateAction, "set_active_project", "add_bucket", "add_task",
     "add_member", "delete", "undo", "none"}

\* what JSON.parse of the classifier's content can be, for one action
ParsedFor(a) ==
    {[action |-> a, data |-> d, reply |-> "ai.reply"] : d \in DataFor(a)}

Parsed == UNION {ParsedFor(a) : a \in Actions}

\* callLLM's catch: content that is not JSON
Unparseable ==
    [action |-> "none", data |-> EmptyObj,
     reply |-> "I could not understand that. Could you rephrase?"]

\* axios.post rejects: callLLM throws
Rejected == [action |-> "throw", data |-> EmptyObj, reply |-> ""]

AiResponses == Parsed \cup {Unparseable, Rejected}

-----------------------------------------------------------------------------
(* A handler and the state it runs on: c = [db, nextId, memory, q], q the  *)
(* handler's frame.  Every step below maps c to the set of configurations  *)
(* the step can leave.                                                     *)

Idle == [pc |-> "idle"]

\* the handler's locals once it awaits callLLM(message); the message is
\* not read again
Frame(ip) ==
    [pc |-> "callLLM", ip |-> ip, ai |-> Unparseable, arg |-> Null,
     doc |-> <<>>, reply |-> ""]

\* res.json({reply}) and return
Reply(c, text) == [c EXCEPT !.q.pc = "done", !.q.reply = text]

\* suspend at the store call pc
Await(c, pc) == [c EXCEPT !.q.pc = pc]

Ctx(c) == c.memory[c.q.ip]

\* the assignment that lands in the context of every session
SetCtxShared(c, f, v) ==
    [c EXCEPT !.memory = [i \in DOMAIN @ |-> SetField(@[i], f, v)]]

SetCtx(c, f, v) == [c EXCEPT !.memory[c.q.ip] = SetField(@, f, v)]

FindById(c, model, id) == {d \in c.db[model] : d._id = id}

\* Model.create(doc) with the _id given: the unique _id index refuses a second
DuplicateKey(c, model, doc) == \E d \in c.db[model] : d._id = doc._id

\* Board.findOne().sort({ createdAt: -1 })
MostRecent(S) == {d \in S : \A e \in S : e.createdAt <= d.createdAt}

\* Model.create(fields): the store assigns the next _id
Insert(c, model, fields) ==
    [c EXCEPT !.db[model] = @ \cup {fields @@ [_id |-> c.nextId]},
              !.nextId = @ + 1]

\* the Model a delete picks from data.type; "" when none
ModelOf(type) ==
    CASE type = "task" -> "Task"
      [] type = "bucket" -> "Bucket"
      [] type = (IF version = 1 THEN "project" ELSE "board") -> "Board"
      [] type = "member" -> "User"
      [] OTHER -> ""

\* case 'create_project' / 'create_board', up to Board.create
CreateCase(c) ==
    IF ~Has(c.q.ai.data, "title") THEN Reply(c, c.q.ai.reply)
    ELSE Await(c, "Board.create")

\* case 'set_active_project', up to Board.findOne
SetActiveCase(c) ==
    IF ~Has(c.q.ai.data, "title") THEN Reply(c, c.q.ai.reply)
    ELSE Await(c, "setActive.findOne")

\* case 'add_bucket', up to the board lookup, called with ctx.activeBoardId
AddBucketCase(c) ==
    IF ~Has(c.q.ai.data, "title") THEN Reply(c, c.q.ai.reply)
    ELSE Await([c EXCEPT !.q.arg = IdOf(Ctx(c), "activeBoardId")],
               "addBucket.findBoard")

\* case 'add_task', up to its first lookup
AddTaskCase(c) ==
    IF ~Has(c.q.ai.data, "title") \/ ~Has(c.q.ai.data, "bucket")
    THEN Reply(c, c.q.ai.reply)
    ELSE IF version = 1
         THEN Await([c EXCEPT !.q.arg = IdOf(Ctx(c), "activeBoardId")],
                    "addTask.findBoard")
         ELSE Await(c, "addTask.findBucket")

\* case 'add_member', up to User.create
AddMemberCase(c) ==
    IF ~Has(c.q.ai.data, "name") THEN Reply(c, c.q.ai.reply)
    ELSE Await(c, "User.create")

\* case 'delete', up to Model.findOne
DeleteCase(c) ==
    IF ~Has(c.q.ai.data, "type") \/ ~Has(c.q.ai.data, "name")
    THEN Reply(c, c.q.ai.reply)
    ELSE IF ModelOf(c.q.ai.data.type) = ""
         THEN Reply(c, "Invalid delete request.")
         ELSE Await(c, "delete.findOne")

\* case 'undo' without the guard on ctx.lastDeleted: reading .model of an
\* absent snapshot throws, and the catch of the route answers
UndoCaseUnguarded(c) ==
    IF SnapOf(Ctx(c)) = <<>> THEN Reply(c, "Backend error. Please try again.")
    ELSE Await([c EXCEPT !.q.doc = SnapOf(Ctx(c))], "undo.create")

\* case 'undo', up to model.create, called with ctx.lastDeleted
UndoCase(c) ==
    IF SnapOf(Ctx(c)) = <<>> THEN Reply(c, "Nothing to undo.")
    ELSE Await([c EXCEPT !.q.doc = SnapOf(Ctx(c))], "undo.create")

\* the switch on ai.action, up to the first store call of the case taken
Dispatch(c) ==
    CASE c.q.ai.action = CreateAction -> CreateCase(c)
      [] c.q.ai.action = "set_active_project" /\ version = 1 -> SetActiveCase(c)
      [] c.q.ai.action = "add_bucket" -> AddBucketCase(c)
      [] c.q.ai.action = "add_task" -> AddTaskCase(c)
      [] c.q.ai.action = "add_member" -> AddMemberCase(c)
      [] c.q.ai.action = "delete" -> DeleteCase(c)
      [] c.q.ai.action = "undo" -> UndoCase(c)
      [] OTHER -> Reply(c, c.q.ai.reply)

\* `await callLLM(message)` settles with out; the first route then looks
\* data.project up before the switch
LLMSettled(c, out) ==
    IF out = Rejected
    THEN {Reply(c, "Backend error. Please try again.")}
    ELSE LET c1 == [c EXCEPT !.q.ai = out]
         IN  IF version = 1 /\ Has(out.data, "project")
             THEN {Await(c1, "findProject")}
             ELSE {Dispatch(c1)}

\* Board.findOne({title: /^data.project$/i}) resolves; then the switch
ProjectFound(c) ==
    LET found == {d \in c.db.Board : TestExact(c.q.ai.data.project, d.title)}
    IN  IF found = {} THEN {Dispatch(c)}
        ELSE {Dispatch(SetCtx(c, "activeBoardId", project._id)) :
                 project \in found}

\* the create that leaves the session's active board as it is
BoardCreatedNotActive(c) ==
    LET done == Insert(c, "Board", [title |-> c.q.ai.data.title,
                                    createdAt |-> c.nextId])
    IN  {Reply(done, IF version = 1 THEN "Project created and set as active"
                     ELSE c.q.ai.reply)}

\* Board.create({title}) resolves
BoardCreated(c) ==
    LET done == Insert(c, "Board", [title |-> c.q.ai.data.title,
                                    createdAt |-> c.nextId])
    IN  {Reply(SetCtx(done, "activeBoardId", c.nextId),
               IF version = 1 THEN "Project created and set as active"
               ELSE c.q.ai.reply)}

\* set_active_project: Board.findOne({title: /^data.title$/i}) resolves
ActiveFound(c) ==
    LET found == {d \in c.db.Board : TestExact(c.q.ai.data.title, d.title)}
    IN  IF found = {} THEN {Reply(c, "Project not found.")}
        ELSE {Reply(SetCtx(c, "activeBoardId", project._id),
                    "Switched to project") : project \in found}

\* add_bucket: the board lookup resolves.  First route: findById of the
\* session's active id.  Second route: the same when the id is truthy,
\* else the most recently created board.
AddBucketBoard(c) ==
    LET found == IF version = 2 /\ c.q.arg = Null
                 THEN MostRecent(c.db.Board)
                 ELSE FindById(c, "Board", c.q.arg)
    IN  IF found = {}
        THEN IF version = 1
             THEN {Reply(SetCtx(c, "activeBoardId", Null),
                         "Active project is invalid. Please select a project.")}
             ELSE {Reply(c, "Please create a board first.")}
        ELSE {Await([c EXCEPT !.q.doc = <<board>>], "Bucket.create") :
                 board \in found}

\* Bucket.create({title, boardId}) resolves
BucketCreated(c) ==
    {Reply(Insert(c, "Bucket", [title |-> c.q.ai.data.title,
                                boardId |-> c.q.doc[1]._id]),
           IF version = 1 THEN "Bucket added to project" ELSE c.q.ai.reply)}

\* add_task of the first route: Board.findById(ctx.activeBoardId) resolves
AddTaskBoard(c) ==
    LET found == FindById(c, "Board", c.q.arg)
    IN  IF found = {} THEN {Reply(c, "Please select a project first.")}
        ELSE {Await([c EXCEPT !.q.doc = <<project>>], "addTask.findBucket") :
                 project \in found}

\* the add_task that goes on to Task.create when no bucket is found
AddTaskBucketUnchecked(c) ==
    LET found == {b \in c.db.Bucket :
                     /\ TestExact(c.q.ai.data.bucket, b.title)
                     /\ version = 1 => b.boardId = c.q.doc[1]._id}
    IN  IF found = {}
        THEN {Await([c EXCEPT !.q.doc = <<[_id |-> Null]>>], "Task.create")}
        ELSE {Await([c EXCEPT !.q.doc = <<bucket>>], "Task.create") :
                 bucket \in found}

\* add_task: Bucket.findOne({title: /^data.bucket$/i [, boardId]}) resolves
AddTaskBucket(c) ==
    LET found == {b \in c.db.Bucket :
                     /\ TestExact(c.q.ai.data.bucket, b.title)
                     /\ version = 1 => b.boardId = c.q.doc[1]._id}
    IN  IF found = {}
        THEN {Reply(c, IF version = 1
                       THEN "Bucket not found in the active project."
                       ELSE "Bucket not found.")}
        ELSE {Await([c EXCEPT !.q.doc = <<bucket>>], "Task.create") :
                 bucket \in found}

\* Task.create({title, bucketId}) resolves
TaskCreated(c) ==
    {Reply(Insert(c, "Task", [title |-> c.q.ai.data.title,
                              bucketId |-> c.q.doc[1]._id]),
           c.q.ai.reply)}

\* User.create({name, initials, avatarColor}) resolves
UserCreated(c) ==
    {Reply(Insert(c, "User", [name |-> c.q.ai.data.name,
                              initials |-> Initials(c.q.ai.data.name),
                              avatarColor |-> "bg-blue-500"]),
           c.q.ai.reply)}

\* the delete that keeps a snapshot the session already holds
DeleteFoundKeepsFirst(c) ==
    LET Model == ModelOf(c.q.ai.data.type)
        found == {d \in c.db[Model] :
                     Test(c.q.ai.data.name, d[NameField(Model)])}
    IN  IF found = {} THEN {Reply(c, "Nothing found to delete.")}
        ELSE {Await([(IF SnapOf(Ctx(c)) = <<>>
                      THEN SetCtx(c, "lastDeleted",
                                  <<[model |-> Model, data |-> doc]>>)
                      ELSE c)
                        EXCEPT !.q.doc = <<doc>>], "deleteOne") :
                 doc \in found}

\* the delete that drops the session's snapshot when it finds nothing
DeleteFoundForgets(c) ==
    LET Model == ModelOf(c.q.ai.data.type)
        found == {d \in c.db[Model] :
                     Test(c.q.ai.data.name, d[NameField(Model)])}
    IN  IF found = {}
        THEN {Reply(SetCtx(c, "lastDeleted", <<>>), "Nothing found to delete.")}
        ELSE {Await([SetCtx(c, "lastDeleted",
                            <<[model |-> Model, data |-> doc]>>)
                        EXCEPT !.q.doc = <<doc>>], "deleteOne") :
                 doc \in found}

\* delete: Model.findOne({[field]: /data.name/i}) resolves; the snapshot is
\* stored and deleteOne called
DeleteFound(c) ==
    LET Model == ModelOf(c.q.ai.data.type)
        found == {d \in c.db[Model] :
                     Test(c.q.ai.data.name, d[NameField(Model)])}
    IN  IF found = {} THEN {Reply(c, "Nothing found to delete.")}
        ELSE {Await([SetCtx(c, "lastDeleted",
                            <<[model |-> Model, data |-> doc]>>)
                        EXCEPT !.q.doc = <<doc>>], "deleteOne") :
                 doc \in found}

\* delete: Model.deleteOne({_id: doc._id}) resolves
DocDeleted(c) ==
    LET Model == ModelOf(c.q.ai.data.type)
        doc == c.q.doc[1]
        gone == [c EXCEPT !.db[Model] = {d \in @ : d._id # doc._id}]
    IN  {Reply(IF /\ version = 1
                  /\ c.q.ai.data.type = "project"
                  /\ IdOf(Ctx(c), "activeBoardId") = doc._id
               THEN SetCtx(gone, "activeBoardId", Null)
               ELSE gone,
               c.q.ai.reply)}

\* the undo whose create drops the _id of the snapshot, the store assigning
\* a new one
UndoCreatedFreshId(c) ==
    LET lastDeleted == c.q.doc[1]
    IN  {Reply(SetCtx(Insert(c, lastDeleted.model,
                             Without(lastDeleted.data, {"_id"})),
                      "lastDeleted", <<>>),
               "Undo successful")}

\* the undo that leaves ctx.lastDeleted as it is
UndoCreatedKeeps(c) ==
    LET lastDeleted == c.q.doc[1]
    IN  IF DuplicateKey(c, lastDeleted.model, lastDeleted.data)
        THEN {Reply(c, "Backend error. Please try again.")}
        ELSE {Reply([c EXCEPT !.db[lastDeleted.model] =
                                 @ \cup {lastDeleted.data}],
                    "Undo successful")}

\* undo: ctx.lastDeleted.model.create(ctx.lastDeleted.data) resolves, or
\* rejects on a duplicate _id
UndoCreated(c) ==
    LET lastDeleted == c.q.doc[1]
    IN  IF DuplicateKey(c, lastDeleted.model, lastDeleted.data)
        THEN {Reply(c, "Backend error. Please try again.")}
        ELSE {Reply(SetCtx([c EXCEPT !.db[lastDeleted.model] =
                                        @ \cup {lastDeleted.data}],
                           "lastDeleted", <<>>),
                    "Undo successful")}

\* the store calls that assign an _id
Creates == {"Board.create", "Bucket.create", "Task.create", "User.create"}

\* the suspended handler resumes from its store call
Resumed(c) ==
    CASE c.q.pc = "findProject" -> ProjectFound(c)
      [] c.q.pc = "Board.create" -> BoardCreated(c)
      [] c.q.pc = "setActive.findOne" -> ActiveFound(c)
      [] c.q.pc = "addBucket.findBoard" -> AddBucketBoard(c)
      [] c.q.pc = "Bucket.create" -> BucketCreated(c)
      [] c.q.pc = "addTask.findBoard" -> AddTaskBoard(c)
      [] c.q.pc = "addTask.findBucket" -> AddTaskBucket(c)
      [] c.q.pc = "Task.create" -> TaskCreated(c)
      [] c.q.pc = "User.create" -> UserCreated(c)
      [] c.q.pc = "delete.findOne" -> DeleteFound(c)
      [] c.q.pc = "deleteOne" -> DocDeleted(c)
      [] c.q.pc = "undo.create" -> UndoCreated(c)

\* the store has an _id left for the create the handler waits on
CanResume(c) == c.q.pc \in Creates => c.nextId <= MaxId

\* the handler run from c to its res.json, nothing interleaved
RECURSIVE Run(_)
Run(c) ==
    IF c.q.pc = "done" THEN {c}
    ELSE IF ~CanResume(c) THEN {}
    ELSE UNION {Run(d) : d \in Resumed(c)}

\* getCtx, and the frontend-controlled active project of the first route
Enter(mem, ip, activeProjectId) ==
    LET got == IF ip \in DOMAIN mem THEN mem
               ELSE mem @@ [i \in {ip} |-> EmptyObj]
    IN  IF version = 1 /\ activeProjectId # Null
        THEN [got EXCEPT ![ip] = SetField(@, "activeBoardId", activeProjectId)]
        ELSE got

\* a handler at `await callLLM(message)`, on the shared state st
Start(st, ip, activeProjectId) ==
    [db |-> st.db, nextId |-> st.nextId,
     memory |-> Enter(st.memory, ip, activeProjectId), q |-> Frame(ip)]

\* the shared state a configuration leaves
Shared(c) == [db |-> c.db, nextId |-> c.nextId, memory |-> c.memory]

\* POST /chat on the shared state st, from arrival to res.json with nothing
\* interleaved: the configurations it can end in, the classifier settling
\* with out
Chat(st, ip, message, activeProjectId, out) ==
    IF message = ""
    THEN {Reply([db |-> st.db, nextId |-> st.nextId, memory |-> st.memory,
                 q |-> Frame(ip)], "Empty message")}
    ELSE UNION {Run(d) : d \in LLMSettled(Start(st, ip, activeProjectId), out)}

-----------------------------------------------------------------------------
(* Actions *)

Messages == {"", "yes", "zzz"}

\* the active project ids a frontend sends: none, or an id
ActiveProjectIds == IF version = 1 THEN {Null, 1} ELSE {Null}

Clients == {"ip1"}

Init ==
    /\ version \in {1, 2}
    /\ db = [m \in Models |-> {}]
    /\ nextId = 1
    /\ memory = EmptyObj
    /\ reqs = [r \in Slots |-> Idle]

Now == [db |-> db, nextId |-> nextId, memory |-> memory]

Quiet == \A s \in Slots : reqs[s] = Idle

\* the shared state becomes what configuration c leaves
Store(c) ==
    /\ db' = c.db
    /\ nextId' = c.nextId
    /\ memory' = c.memory

\* a request with an empty message is answered
ChatEmpty ==
    /\ Quiet
    /\ \E ip \in Clients : \E c \in Chat(Now, ip, "", Null, Unparseable) : Store(c)
    /\ UNCHANGED <<version, reqs>>

\* a request with a message is handled, one request at a time
ChatMessage ==
    /\ Quiet
    /\ \E ip \in Clients, a \in ActiveProjectIds, out \in AiResponses :
         \E c \in Chat(Now, ip, "zzz", a, out) :
            \E message \in Messages \ {""} :
               c \in Chat(Now, ip, message, a, out) /\ Store(c)
    /\ UNCHANGED <<version, reqs>>

Next == ChatEmpty \/ ChatMessage

Spec == Init /\ [][Next]_vars

-----------------------------------------------------------------------------
(* Requests that overlap: each handler runs from one `await` to the next,  *)
(* and the handlers of different requests interleave at those points.      *)

\* the handler suspended in slot r, on the shared state
Conf(r) == [db |-> db, nextId |-> nextId, memory |-> memory, q |-> reqs[r]]

\* the handler of slot r ran up to its next await, or to its res.json
Install(r, c) ==
    /\ Store(c)
    /\ reqs' = [reqs EXCEPT ![r] = IF c.q.pc = "done" THEN Idle ELSE c.q]
    /\ UNCHANGED version

\* a request with a message arrives and runs up to `await callLLM(message)`
Receive(r, ip, activeProjectId) ==
    /\ reqs[r] = Idle
    /\ \A s \in Slots : s < r => reqs[s] # Idle
    /\ Install(r, Start(Now, ip, activeProjectId))

\* callLLM settles with out; the handler runs on to its first store call
LLMReturn(r, out) ==
    /\ reqs[r].pc = "callLLM"
    /\ \E c \in LLMSettled(Conf(r), out) : Install(r, c)

\* the store call of the handler in slot r settles; the handler runs on
Resume(r) ==
    /\ reqs[r].pc \notin {"idle", "callLLM"}
    /\ CanResume(Conf(r))
    /\ \E c \in Resumed(Conf(r)) : Install(r, c)

\* what the classifier answers in the overlapping runs: create a board,
\* delete a board, undo, add a bucket
ConcResponses ==
    {[action |-> CreateAction, data |-> [title |-> <<"r">>],
      reply |-> "ai.reply"],
     [action |-> "delete",
      data |-> [type |-> IF version = 1 THEN "project" ELSE "board",
                name |-> <<"r">>],
      reply |-> "ai.reply"],
     [action |-> "undo", data |-> EmptyObj, reply |-> "ai.reply"],
     [action |-> "add_bucket", data |-> [title |-> <<"r">>],
      reply |-> "ai.reply"]}

ReceiveNext ==
    \E r \in Slots, ip \in Clients, a \in ActiveProjectIds :
        Receive(r, ip, a)

LLMNext == \E r \in Slots, out \in ConcResponses : LLMReturn(r, out)

ResumeNext == \E r \in Slots : Resume(r)

NextConc == ReceiveNext \/ LLMNext \/ ResumeNext

SpecConc == Init /\ [][NextConc]_vars

-----------------------------------------------------------------------------
(* Store calls that reject.  Every store call of the handler sits inside   *)
(* the try of the route, so a rejection passes control to its catch.  A    *)
(* call that rejects leaves the store as it was.                           *)

\* the awaited store call of the suspended handler rejects
Thrown(c) == [c EXCEPT !.q.pc = "catch"]

\* the catch that leaves the request without a response
Uncaught(c) == c

\* catch (err) { ...; return res.json({ reply: 'Backend error. ...' }) }
Caught(c) == Reply(c, "Backend error. Please try again.")

\* the handler run from c to its end with one of its store calls rejecting
RECURSIVE RunThrown(_)
RunThrown(c) ==
    IF c.q.pc = "done" \/ ~CanResume(c) THEN {}
    ELSE {Caught(Thrown(c))} \cup UNION {RunThrown(d) : d \in Resumed(c)}

\* POST /chat on the shared state st, one of its store calls rejecting
ChatThrown(st, ip, activeProjectId, out) ==
    UNION {RunThrown(d) : d \in LLMSettled(Start(st, ip, activeProjectId), out)}

\* a request is handled and one of its store calls rejects
ChatFault ==
    /\ Quiet
    /\ \E ip \in Clients, a \in ActiveProjectIds, out \in AiResponses :
         \E c \in ChatThrown(Now, ip, a, out) : Store(c)
    /\ UNCHANGED <<version, reqs>>

NextFault == ChatEmpty \/ ChatMessage \/ ChatFault

SpecFault == Init /\ [][NextFault]_vars

-----------------------------------------------------------------------------
(* Two clients.  Requests are handled one at a time and come from either   *)
(* address; the classifier answers as in the overlapping runs.             *)

ChatFrom ==
    /\ Quiet
    /\ \E ip \in IPs, a \in ActiveProjectIds, out \in ConcResponses :
         \E c \in Chat(Now, ip, "zzz", a, out) : Store(c)
    /\ UNCHANGED <<version, reqs>>

NextSessions == ChatEmpty \/ ChatFrom

SpecSessions == Init /\ [][NextSessions]_vars

-----------------------------------------------------------------------------
(* Properties.  A request is (ip, message, activeProjectId, out); Chat     *)
(* gives what handling it leaves, so a statement about one request, or     *)
(* about requests handled one after the other, is a statement about Chat   *)
(* applied to a reachable state.                                           *)

NonEmpty == Messages \ {""}

Undo == [action |-> "undo", data |-> EmptyObj, reply |-> "ai.reply"]

\* the documents of store `before` that store `after` no longer holds
Removed(before, after) ==
    UNION {{<<m, d>> : d \in before[m] \ after[m]} : m \in Models}

\* the documents of every collection that the query n matches
MatchesAll(store, n) ==
    UNION {{<<m, d>> : d \in {e \in store[m] : Test(n, e[NameField(m)])}} :
              m \in Models}

\* the session's pendingDelete / pendingChoices, empty when the context
\* has no such field
Pending(mem, ip, f) ==
    IF ip \in DOMAIN mem /\ Has(mem[ip], f) THEN mem[ip][f] ELSE <<>>

\* C1: a record leaves the store only when the session holds it as
\* pendingDelete and the message is exactly "yes"; a delete request with
\* exactly one match removes nothing and stores the match as pendingDelete.
C1_DeleteOnlyOnConfirmation ==
    \A ip \in Clients, message \in Messages, a \in ActiveProjectIds,
       out \in AiResponses :
       \A c \in Chat(Now, ip, message, a, out) :
          /\ \A x \in Removed(db, c.db) :
                /\ message = "yes"
                /\ Pending(memory, ip, "pendingDelete") = <<x>>
          /\ \A x \in (IF out.action = "delete" /\ Has(out.data, "name")
                        THEN MatchesAll(db, out.data.name) ELSE {}) :
                (message # "" /\ MatchesAll(db, out.data.name) = {x})
                    => /\ c.db = db
                       /\ Pending(c.memory, ip, "pendingDelete") = <<x>>

\* C2: when a Board leaves the store no Bucket of it and no Task of those
\* Buckets remains; when a Bucket leaves the store no Task of it remains.
C2_CascadeChildrenFirst ==
    \A ip \in Clients, message \in Messages, a \in ActiveProjectIds,
       out \in AiResponses :
       \A c \in Chat(Now, ip, message, a, out) :
          /\ \A b \in db.Board \ c.db.Board :
                /\ \A k \in c.db.Bucket : k.boardId # b._id
                /\ \A k \in db.Bucket, t \in c.db.Task :
                      k.boardId = b._id => t.bucketId # k._id
          /\ \A k \in db.Bucket \ c.db.Bucket :
                \A t \in c.db.Task : t.bucketId # k._id

\* the session context getCtx gives: empty for a client not seen before
CtxOf(mem, ip) == IF ip \in DOMAIN mem THEN mem[ip] ELSE EmptyObj

DeleteResponses == {o \in AiResponses : o.action = "delete"}

\* how many elements of S have each value of F
Bag(S, F(_)) == [x \in {F(e) : e \in S} |-> Cardinality({e \in S : F(e) = x})]

TaskShape(t) == Without(t, {"_id", "bucketId"})

\* a bucket less its ids, with the tasks it holds
BucketShape(store, k) ==
    [fields |-> Without(k, {"_id", "boardId"}),
     tasks |-> Bag({t \in store.Task : t.bucketId = k._id}, TaskShape)]

\* a board less its id, with the buckets it holds
BoardShape(store, b) ==
    LET Shape(k) == BucketShape(store, k)
    IN  [fields |-> Without(b, {"_id"}),
         buckets |-> Bag({k \in store.Bucket : k.boardId = b._id}, Shape)]

\* C3: deleting a Board and then undoing in the same session leaves a store
\* with as many Boards, Buckets and Tasks as before, in which the recreated
\* Board has the field values of the deleted one and holds Buckets and
\* Tasks of the same field values in the same arrangement (ids apart).
C3_DeleteUndoRoundTrip ==
    \A ip \in Clients, m1 \in NonEmpty, m2 \in NonEmpty,
       a1 \in ActiveProjectIds, a2 \in ActiveProjectIds,
       out \in DeleteResponses :
       \A c1 \in Chat(Now, ip, m1, a1, out) :
          \A b \in db.Board \ c1.db.Board :
             \A c2 \in Chat(Shared(c1), ip, m2, a2, Undo) :
                /\ c2.q.reply = "Undo successful"
                /\ \A m \in Models : Cardinality(c2.db[m]) = Cardinality(db[m])
                /\ \E b2 \in c2.db.Board \ c1.db.Board :
                      BoardShape(c2.db, b2) = BoardShape(db, b)
                /\ \A k \in c2.db.Bucket : \E b2 \in c2.db.Board :
                      (\E e \in db.Board : e._id = k.boardId)
                          => b2._id = k.boardId

\* a Board holding a Bucket holding a Task is deleted and then restored
C3_Witness ==
    \E ip \in Clients, a \in ActiveProjectIds, out \in DeleteResponses :
       \E c1 \in Chat(Now, ip, "zzz", a, out) :
          \E b \in db.Board \ c1.db.Board :
             /\ \E k \in db.Bucket, t \in db.Task :
                   k.boardId = b._id /\ t.bucketId = k._id
             /\ \E c2 \in Chat(Shared(c1), ip, "zzz", a, Undo) :
                   /\ c2.q.reply = "Undo successful"
                   /\ \E b2 \in c2.db.Board \ c1.db.Board :
                         \E k \in c2.db.Bucket, t \in c2.db.Task :
                            k.boardId = b2._id /\ t.bucketId = k._id

C5_UndoConsumesSnapshot ==
    /\ \A ip \in Clients, m1 \in NonEmpty, m2 \in NonEmpty,
          a1 \in ActiveProjectIds, a2 \in ActiveProjectIds :
          \A c1 \in Chat(Now, ip, m1, a1, Undo) :
             c1.q.reply = "Undo successful" =>
                /\ SnapOf(c1.memory[ip]) = <<>>
                /\ \A c2 \in Chat(Shared(c1), ip, m2, a2, Undo) :
                      /\ c2.q.reply = "Nothing to undo."
                      /\ c2.db = c1.db
    /\ \A ip \in DOMAIN memory :
          \A snap \in {SnapOf(memory[ip])} :
             snap # <<>> =>
                \A d \in db[snap[1].model] : d._id # snap[1].data._id

\* an undo restores a record and a second undo follows it
C5_Witness ==
    \E ip \in Clients :
       \E c1 \in Chat(Now, ip, "zzz", Null, Undo) :
          /\ c1.q.reply = "Undo successful"
          /\ c1.db # db
          /\ \E c2 \in Chat(Shared(c1), ip, "zzz", Null, Undo) :
                c2.q.reply = "Nothing to undo."

\* C6: after a delete of A and then a delete of B with no undo between
\* them, the next undo restores B and nothing else, and the undo after
\* that restores nothing and leaves no snapshot: A is not restored.
C6_OnlyLastDeleteUndoable ==
    \A ip \in Clients, m \in NonEmpty,
       a1 \in ActiveProjectIds, a2 \in ActiveProjectIds,
       outA \in DeleteResponses, outB \in DeleteResponses :
       \A c1 \in Chat(Now, ip, m, a1, outA) :
          \A A \in Removed(db, c1.db) :
             \A c2 \in Chat(Shared(c1), ip, m, a2, outB) :
                \A B \in Removed(c1.db, c2.db) :
                   \A c3 \in Chat(Shared(c2), ip, m, a1, Undo) :
                      /\ c3.q.reply = "Undo successful"
                      /\ c3.db = [c2.db EXCEPT ![B[1]] = @ \cup {B[2]}]
                      /\ A[2] \notin c3.db[A[1]]
                      /\ \A c4 \in Chat(Shared(c3), ip, m, a2, Undo) :
                            /\ c4.q.reply = "Nothing to undo."
                            /\ c4.db = c3.db
                            /\ SnapOf(c4.memory[ip]) = <<>>

\* two records are deleted one after the other and an undo follows
C6_Witness ==
    \E ip \in Clients, outA \in DeleteResponses, outB \in DeleteResponses :
       \E c1 \in Chat(Now, ip, "zzz", Null, outA) :
          \E A \in Removed(db, c1.db) :
             \E c2 \in Chat(Shared(c1), ip, "zzz", Null, outB) :
                \E B \in Removed(c1.db, c2.db) :
                   \E c3 \in Chat(Shared(c2), ip, "zzz", Null, Undo) :
                      /\ A # B
                      /\ B[2] \in c3.db[B[1]]
                      /\ A[2] \notin c3.db[A[1]]

\* C7: every record an undo creates gets an _id the store newly assigns,
\* different from the _id the deleted record had.
C7_UndoAssignsNewIds ==
    \A ip \in Clients, message \in NonEmpty, a \in ActiveProjectIds :
       \A c \in Chat(Now, ip, message, a, Undo) :
          \A m \in Models : \A d \in c.db[m] \ db[m] :
             /\ d._id >= nextId
             /\ \A snap \in {SnapOf(Enter(memory, ip, a)[ip])} :
                   snap # <<>> => d._id # snap[1].data._id

\* C8: with requests of one session overlapping, an undo that restores a
\* record restores the snapshot the session holds at that moment, never
\* one that a delete has replaced since the undo read it.
C8_UndoRestoresCurrentSnapshot ==
    [][\A r \in Slots :
          (reqs[r].pc = "undo.create" /\ reqs'[r] = Idle /\ db' # db)
              => SnapOf(memory[reqs[r].ip]) = reqs[r].doc]_vars

\* C9: a delete request whose query matches two or more entities over the
\* four kinds removes nothing and stores every match as pendingChoices.
C9_AmbiguousDeleteAsks ==
    \A ip \in Clients, message \in NonEmpty, a \in ActiveProjectIds,
       out \in {o \in AiResponses : o.action = "delete" /\ Has(o.data, "name")} :
       Cardinality(MatchesAll(db, out.data.name)) >= 2 =>
          \A c \in Chat(Now, ip, message, a, out) :
             /\ c.db = db
             /\ Len(Pending(c.memory, ip, "pendingChoices")) >= 2
             /\ {Pending(c.memory, ip, "pendingChoices")[i] :
                    i \in DOMAIN Pending(c.memory, ip, "pendingChoices")}
                  = MatchesAll(db, out.data.name)

\* C10: a classifier call that fails or returns unparseable content is
\* never answered with the error reply.
C10_ClassifierFailureAbsorbed ==
    \A ip \in Clients, message \in NonEmpty, a \in ActiveProjectIds,
       out \in {Rejected, Unparseable} :
       \A c \in Chat(Now, ip, message, a, out) :
          c.q.reply # "Backend error. Please try again."

\* C11: every request ends answered with a reply: an empty message with
\* "Empty message", a request whose store calls all resolve with the reply
\* of its case, and a request one of whose store calls rejects with the
\* generic "Backend error. Please try again.", the store left as it was.
C11_AlwaysOneReply ==
    /\ \A ip \in Clients :
          /\ Chat(Now, ip, "", Null, Unparseable) # {}
          /\ \A c \in Chat(Now, ip, "", Null, Unparseable) :
                c.q.pc = "done" /\ c.q.reply = "Empty message"
    /\ \A ip \in Clients, a \in ActiveProjectIds, out \in AiResponses :
          /\ \A c \in Chat(Now, ip, "zzz", a, out) :
                c.q.pc = "done" /\ c.q.reply # ""
          /\ \A c \in ChatThrown(Now, ip, a, out) :
                /\ c.q.pc = "done"
                /\ c.q.reply = "Backend error. Please try again."
                /\ c.db = db
          /\ nextId <= MaxId => Chat(Now, ip, "zzz", a, out) # {}

\* a store call of a handler can reject in a state holding documents
C11_Witness ==
    /\ db.Board # {}
    /\ \E ip \in Clients, a \in ActiveProjectIds, out \in AiResponses :
          \E c \in ChatThrown(Now, ip, a, out) :
             /\ out.action = "delete"
             /\ c.q.reply = "Backend error. Please try again."
             /\ c.memory # Enter(memory, ip, a)

CreateResponses ==
    {o \in AiResponses : o.action = CreateAction /\ Has(o.data, "title")}

\* add_bucket answers that give a title and name no board
AddBucketResponses ==
    {o \in AiResponses : /\ o.action = "add_bucket"
                         /\ Has(o.data, "title")
                         /\ ~Has(o.data, "project")}

\* C12: when a create of a Board succeeds the session's activeBoardId is
\* the new Board's id, and an add_bucket that follows in the session,
\* naming no board, creates a Bucket whose boardId is that Board.
C12_CreatedBoardIsActive ==
    \A ip \in Clients, m \in NonEmpty, a \in ActiveProjectIds,
       out \in CreateResponses :
       \A c1 \in Chat(Now, ip, m, a, out) :
          /\ c1.db.Board \ db.Board # {}
          /\ \A b \in c1.db.Board \ db.Board :
                /\ IdOf(c1.memory[ip], "activeBoardId") = b._id
                /\ \A out2 \in AddBucketResponses :
                      \A c2 \in Chat(Shared(c1), ip, m, Null, out2) :
                         /\ c2.db.Bucket \ c1.db.Bucket # {}
                         /\ \A k \in c2.db.Bucket \ c1.db.Bucket :
                               k.boardId = b._id

\* a second Board is created in a session and a Bucket added after it
C12_Witness ==
    \E ip \in Clients, out \in CreateResponses :
       \E c1 \in Chat(Now, ip, "zzz", Null, out) :
          \E b \in c1.db.Board \ db.Board :
             /\ \E e \in db.Board :
                   /\ e.title # b.title
                   /\ IdOf(CtxOf(memory, ip), "activeBoardId") = e._id
             /\ \E out2 \in AddBucketResponses :
                   \E c2 \in Chat(Shared(c1), ip, "zzz", Null, out2) :
                      \E k \in c2.db.Bucket \ c1.db.Bucket :
                         k.boardId = b._id

\* add_task answers that give a title and a bucket
AddTaskResponses ==
    {o \in AiResponses : /\ o.action = "add_task"
                         /\ Has(o.data, "title")
                         /\ Has(o.data, "bucket")}

\* the session's activeBoardId, as the request finds it, is no live Board
NoActiveBoard(ip, a) ==
    FindById(Now, "Board", IdOf(Enter(memory, ip, a)[ip], "activeBoardId")) = {}

\* C13: with a Board in the store and the session's activeBoardId absent
\* or not resolving to a live Board, an add_bucket naming no board creates
\* its Bucket in the most recently created Board, and an add_task is not
\* refused for want of an active board.
C13_FallsBackToMostRecent ==
    \A ip \in Clients, m \in NonEmpty, a \in ActiveProjectIds :
       (db.Board # {} /\ NoActiveBoard(ip, a)) =>
          /\ \A out \in AddBucketResponses :
                \A c \in Chat(Now, ip, m, a, out) :
                   /\ c.db.Bucket \ db.Bucket # {}
                   /\ \A k \in c.db.Bucket \ db.Bucket :
                         \E b \in MostRecent(db.Board) : k.boardId = b._id
          /\ \A out \in AddTaskResponses :
                \A c \in Chat(Now, ip, m, a, out) :
                   c.q.reply # "Please select a project first."

\* C14: with requests overlapping, a Bucket is created with the boardId of
\* a Board that is in the store at the moment of the create, and a Task
\* with the bucketId of a Bucket that is in the store at that moment.
C14_ParentLiveAtCreate ==
    [][\A r \in Slots :
          /\ (reqs[r].pc = "Bucket.create" /\ reqs'[r] = Idle
                 /\ db'.Bucket # db.Bucket)
                => \A k \in db'.Bucket \ db.Bucket :
                      \E b \in db.Board : b._id = k.boardId
          /\ (reqs[r].pc = "Task.create" /\ reqs'[r] = Idle
                 /\ db'.Task # db.Task)
                => \A t \in db'.Task \ db.Task :
                      \E k \in db.Bucket : k._id = t.bucketId]_vars

\* the replies that tell the user what to do before adding
Guidance ==
    {"Please select a project first.",
     "Bucket not found in the active project.",
     "Bucket not found.",
     "Active project is invalid. Please select a project.",
     "Please create a board first."}

C16_NoBoardNoChild ==
    \A ip \in Clients, m \in NonEmpty, a \in ActiveProjectIds,
       out \in AddBucketResponses \cup AddTaskResponses :
       db.Board = {} =>
          \A c \in Chat(Now, ip, m, a, out) :
             /\ c.q.reply \in Guidance
             /\ c.db.Bucket = db.Bucket
             /\ c.db.Task = db.Task

\* delete answers that give a name and a type the route knows
ValidDeletes ==
    {o \in DeleteResponses : /\ Has(o.data, "type")
                             /\ Has(o.data, "name")
                             /\ ModelOf(o.data.type) # ""}

\* the documents a delete answer matches in the collection of its type
Matches(store, o) ==
    {d \in store[ModelOf(o.data.type)] :
        Test(o.data.name, d[NameField(ModelOf(o.data.type))])}

C18_SnapshotOnlyOfRemoved ==
    /\ \A ip \in DOMAIN memory :
          \A snap \in {SnapOf(memory[ip])} \ {<<>>} :
             \A d \in db[snap[1].model] : d._id # snap[1].data._id
    /\ \A ip \in Clients, a \in ActiveProjectIds, out \in ValidDeletes :
          \A c \in ChatThrown(Now, ip, a, out) :
             SnapOf(c.memory[ip]) = SnapOf(CtxOf(memory, ip))

\* C19: a delete that removes the Board the session has as its active
\* board leaves the session's activeBoardId null, and a delete that
\* removes anything else leaves the activeBoardId as the request found it.
C19_ActiveBoardNotDeleted ==
    \A ip \in Clients, m \in NonEmpty, a \in ActiveProjectIds,
       out \in ValidDeletes :
       \A c \in Chat(Now, ip, m, a, out) :
          \A x \in Removed(db, c.db) :
             IF /\ x[1] = "Board"
                /\ IdOf(Enter(memory, ip, a)[ip], "activeBoardId") = x[2]._id
             THEN IdOf(c.memory[ip], "activeBoardId") = Null
             ELSE IdOf(c.memory[ip], "activeBoardId")
                     = IdOf(Enter(memory, ip, a)[ip], "activeBoardId")

\* the shared state with only the session of ip in memory
Alone(ip) ==
    [Now EXCEPT !.memory = [i \in DOMAIN memory \cap {ip} |-> memory[i]]]

\* the documents of store `after` that store `before` did not hold
Added(before, after) == Removed(after, before)

\* C20: a request creates the context of its own session key if there is
\* none and leaves the context of every other key as it is, absent ones
\* absent; what it does is what it would do with no other session in
\* memory; and an undo restores nothing but the snapshot of its own
\* session.
C20_SessionsIsolated ==
    \A ip \in IPs, m \in NonEmpty, a \in ActiveProjectIds,
       out \in AiResponses :
       \A c \in Chat(Now, ip, m, a, out) :
          /\ ip \in DOMAIN c.memory
          /\ DOMAIN c.memory = DOMAIN memory \cup {ip}
          /\ \A other \in DOMAIN memory \ {ip} :
                c.memory[other] = memory[other]
          /\ \E alone \in Chat(Alone(ip), ip, m, a, out) :
                /\ alone.db = c.db
                /\ alone.memory[ip] = c.memory[ip]
                /\ alone.q.reply = c.q.reply
          /\ out = Undo =>
                \A x \in Added(db, c.db) :
                   SnapOf(CtxOf(memory, ip)) = <<[model |-> x[1], data |-> x[2]]>>

\* one session holds a snapshot and the other, holding none, asks to undo
C20_Witness ==
    \E ip \in IPs, other \in IPs :
       /\ ip # other
       /\ SnapOf(CtxOf(memory, other)) # <<>>
       /\ ip \in DOMAIN memory
       /\ Has(memory[ip], "activeBoardId")
       /\ \E c \in Chat(Now, ip, "zzz", Null, Undo) :
             c.q.reply = "Nothing to undo." /\ c.db = db

====
